---- MODULE Spec2Model ----
(***************************************************************************)
(* Model of the postgres-best-practices build package: the rule validator  *)
(* (validate.ts), the AGENTS.md aggregator (build.ts), the test-case       *)
(* extractor (extract-tests.ts) and the configuration they share           *)
(* (config.ts).  Text is modelled by TLA+ strings and the string methods   *)
(* the code calls (toLowerCase, includes, trim, startsWith, endsWith,      *)
(* localeCompare) by operators that compute what the methods compute.      *)
(***************************************************************************)
EXTENDS Integers, Sequences, FiniteSets, TLC

VARIABLES
    dir,            \* readdirSync(RULES_DIR): the directory listing, a sequence of files
    sectionsFile,   \* rules/_sections.md: FileOf its entries, or Absent
    metadataFile,   \* metadata.json: FileOf the Metadata in it, or Absent
    clock,          \* the month new Date() falls in
    agentsMd,       \* AGENTS_OUTPUT: FileOf the lines buildAgents last wrote, or Absent
    rules,          \* FileOf buildAgents' rules array with the ids assigned, or Absent
    testCases,      \* TEST_CASES_OUTPUT: FileOf the TestCases last written, or Absent
    candidate,      \* the file handed to a single validateRuleFile call
    validation,     \* the ValidationResult of that call, or Absent
    report          \* FileOf what the validate command counted, printed and
                    \* exited with, or Absent

vars == <<dir, sectionsFile, metadataFile, clock, agentsMd, rules, testCases,
          candidate, validation, report>>

\* A file or result that does not exist (yet), and one that holds content.
Absent == [absent |-> TRUE]
FileOf(content) == [content |-> content]

(***************************************************************************)
(* Bounds of the model.                                                    *)
(***************************************************************************)
\* Longest directory listing explored.
MaxFiles == 2
\* Most examples in a rule handed to the validator.
MaxExamples == 2
\* Number of month changes of the clock explored.
MaxClock == 1

(***************************************************************************)
(* String methods.                                                         *)
(***************************************************************************)
Whitespace == {" ", "\t", "\n", "\r"}

CharAt(s, i) == SubSeq(s, i, i)

\* The first position at or after i of the one-character string c in s, 0 if none.
RECURSIVE IndexOfCharFrom(_, _, _)
IndexOfCharFrom(s, c, i) ==
    IF i > Len(s) THEN 0
    ELSE IF CharAt(s, i) = c THEN i
    ELSE IndexOfCharFrom(s, c, i + 1)

IndexOfChar(s, c) == IndexOfCharFrom(s, c, 1)

\* The letters, each lower-case letter with its upper-case letter.
LetterPairs ==
    <<"aA", "bB", "cC", "dD", "eE", "fF", "gG", "hH", "iI", "jJ", "kK", "lL", "mM",
      "nN", "oO", "pP", "qQ", "rR", "sS", "tT", "uU", "vV", "wW", "xX", "yY", "zZ">>

LowerOf ==
    [c \in {CharAt(LetterPairs[i], 2) : i \in DOMAIN LetterPairs} |->
        CharAt(LetterPairs[CHOOSE i \in DOMAIN LetterPairs : CharAt(LetterPairs[i], 2) = c], 1)]

LowerChar(c) == IF c \in DOMAIN LowerOf THEN LowerOf[c] ELSE c

\* The characters of s from position i on, each in lower case.
RECURSIVE LowerFrom(_, _)
LowerFrom(s, i) ==
    IF i > Len(s) THEN ""
    ELSE LowerChar(CharAt(s, i)) \o LowerFrom(s, i + 1)

toLowerCase(s) == LowerFrom(s, 1)

includes(s, sub) ==
    \E i \in 1..(Len(s) - Len(sub) + 1) : SubSeq(s, i, i + Len(sub) - 1) = sub

startsWith(s, pre) == Len(pre) <= Len(s) /\ SubSeq(s, 1, Len(pre)) = pre

endsWith(s, suf) ==
    Len(suf) <= Len(s) /\ SubSeq(s, Len(s) - Len(suf) + 1, Len(s)) = suf

\* The first position at or after i of s that holds no whitespace, Len(s) + 1
\* if none; the last such position at or before i, 0 if none.
RECURSIVE SkipWhitespace(_, _)
SkipWhitespace(s, i) ==
    IF i <= Len(s) /\ CharAt(s, i) \in Whitespace THEN SkipWhitespace(s, i + 1) ELSE i

RECURSIVE SkipWhitespaceBack(_, _)
SkipWhitespaceBack(s, i) ==
    IF i >= 1 /\ CharAt(s, i) \in Whitespace THEN SkipWhitespaceBack(s, i - 1) ELSE i

trimStart(s) == SubSeq(s, SkipWhitespace(s, 1), Len(s))

trimEnd(s) == SubSeq(s, 1, SkipWhitespaceBack(s, Len(s)))

trim(s) == trimEnd(trimStart(s))

\* A JavaScript string is falsy exactly when it is empty; an absent optional
\* field (undefined) is modelled by the empty string, which the code's
\* truthiness tests (!x, x || d, x && y) cannot tell from it.
Truthy(s) == s # ""

RECURSIVE join(_, _)
join(strs, sep) ==
    IF Len(strs) = 0 THEN ""
    ELSE IF Len(strs) = 1 THEN strs[1]
    ELSE strs[1] \o sep \o join(Tail(strs), sep)

(***************************************************************************)
(* config.ts                                                               *)
(***************************************************************************)
SECTION_MAP ==
    [p \in {"query", "conn", "connection", "schema", "lock", "security",
            "data", "monitor", "advanced"} |->
        CASE p = "query" -> 1
          [] p = "conn" -> 2
          [] p = "connection" -> 2
          [] p = "schema" -> 3
          [] p = "lock" -> 4
          [] p = "security" -> 5
          [] p = "data" -> 6
          [] p = "monitor" -> 7
          [] p = "advanced" -> 8]

IMPACT_LEVELS ==
    <<"CRITICAL", "HIGH", "MEDIUM-HIGH", "MEDIUM", "LOW-MEDIUM", "LOW">>

SeqToSet(s) == {s[i] : i \in DOMAIN s}

(***************************************************************************)
(* parser.ts (parseRuleFile), from the specification's section 4.1: the    *)
(* parser reports a missing title and an unrecognized filename prefix as   *)
(* errors, records the impact it finds without checking it, derives the    *)
(* section from the filename prefix, and keeps the examples in source      *)
(* order.  A file of the model holds the fields the parser reads.          *)
(***************************************************************************)
\* The text of a file name before its first "-".
FilePrefix(name) ==
    IF IndexOfChar(name, "-") > 0
    THEN SubSeq(name, 1, IndexOfChar(name, "-") - 1)
    ELSE name

ParseErrors(file) ==
    (IF Truthy(file.title) THEN <<>> ELSE <<"Missing title">>)
    \o (IF FilePrefix(file.name) \in DOMAIN SECTION_MAP THEN <<>>
        ELSE <<"Unknown section prefix: " \o FilePrefix(file.name)>>)

parseRuleFile(file) ==
    IF ParseErrors(file) = <<>>
    THEN [success |-> TRUE,
          rule |-> [title |-> file.title,
                    impact |-> file.impact,
                    impactDescription |-> file.impactDescription,
                    explanation |-> file.explanation,
                    section |-> SECTION_MAP[FilePrefix(file.name)],
                    examples |-> file.examples,
                    supabaseNotes |-> file.supabaseNotes,
                    references |-> file.references],
          errors |-> <<>>,
          warnings |-> <<>>]
    ELSE [success |-> FALSE,
          rule |-> Absent,
          errors |-> ParseErrors(file),
          warnings |-> <<>>]

(***************************************************************************)
(* validate.ts                                                             *)
(***************************************************************************)
isBadExample(label) ==
    LET lower == toLowerCase(label)
    IN  includes(lower, "incorrect") \/ includes(lower, "wrong") \/ includes(lower, "bad")

isGoodExample(label) ==
    LET lower == toLowerCase(label)
    IN  \/ includes(lower, "correct")
        \/ includes(lower, "good")
        \/ includes(lower, "usage")
        \/ includes(lower, "implementation")
        \/ includes(lower, "example")
        \/ includes(lower, "recommended")

MissingTitleError == "Missing or empty title"
MissingExplanationError == "Missing or empty explanation"
ShortExplanationWarning == "Explanation is shorter than 50 characters"
MissingExamplesError == "Missing examples (need at least one bad and one good example)"
MissingBadAndGoodError == "Missing bad/incorrect and good/correct examples"
MissingBadWarning == "Missing bad/incorrect example (recommended for clarity)"
MissingGoodError == "Missing good/correct example"
NoCodeError == "Examples have no code"
MissingImpactDescriptionWarning ==
    "Missing impactDescription (recommended for quantifying benefit)"

MissingLanguageWarning(label) ==
    "Example \"" \o label \o "\" missing language specification"

InvalidImpactError(impact) ==
    "Invalid impact level: " \o impact \o ". Must be one of: "
        \o join(IMPACT_LEVELS, ", ")

\* Explanations shorter than this draw a warning.
MinExplanationLength == 50

NoIssues == [errors |-> <<>>, warnings |-> <<>>]

\* validate.ts:49-52
TitleIssues(rule) ==
    IF ~Truthy(rule.title) \/ Len(trim(rule.title)) = 0
    THEN [errors |-> <<MissingTitleError>>, warnings |-> <<>>]
    ELSE NoIssues

\* validate.ts:54-59
ExplanationIssues(rule) ==
    IF ~Truthy(rule.explanation) \/ Len(trim(rule.explanation)) = 0
    THEN [errors |-> <<MissingExplanationError>>, warnings |-> <<>>]
    ELSE IF Len(rule.explanation) < MinExplanationLength
    THEN [errors |-> <<>>, warnings |-> <<ShortExplanationWarning>>]
    ELSE NoIssues

\* validate.ts:65-74: hasBad and hasGood are computed independently, each
\* over all the examples, and then compared.
BadGoodIssues(examples) ==
    LET hasBad == \E i \in DOMAIN examples : isBadExample(examples[i].label)
        hasGood == \E i \in DOMAIN examples : isGoodExample(examples[i].label)
    IN  IF ~hasBad /\ ~hasGood
        THEN [errors |-> <<MissingBadAndGoodError>>, warnings |-> <<>>]
        ELSE IF ~hasBad
        THEN [errors |-> <<>>, warnings |-> <<MissingBadWarning>>]
        ELSE IF ~hasGood
        THEN [errors |-> <<MissingGoodError>>, warnings |-> <<>>]
        ELSE NoIssues

\* validate.ts:76-80
CodeIssues(examples) ==
    IF \E i \in DOMAIN examples :
          Truthy(examples[i].code) /\ Len(trim(examples[i].code)) > 0
    THEN NoIssues
    ELSE [errors |-> <<NoCodeError>>, warnings |-> <<>>]

\* validate.ts:82-87
RECURSIVE LanguageWarnings(_)
LanguageWarnings(examples) ==
    IF examples = <<>> THEN <<>>
    ELSE (IF Truthy(Head(examples).code) /\ ~Truthy(Head(examples).language)
          THEN <<MissingLanguageWarning(Head(examples).label)>>
          ELSE <<>>)
         \o LanguageWarnings(Tail(examples))

\* ExampleIssues without the else: the bad/good, code and language checks run
\* on an empty example list too.
ExampleIssuesNoElse(rule) ==
    [errors |-> (IF Len(rule.examples) = 0 THEN <<MissingExamplesError>> ELSE <<>>)
                    \o BadGoodIssues(rule.examples).errors
                    \o CodeIssues(rule.examples).errors,
     warnings |-> BadGoodIssues(rule.examples).warnings
                    \o LanguageWarnings(rule.examples)]

\* validate.ts:61-88
ExampleIssues(rule) ==
    IF Len(rule.examples) = 0
    THEN [errors |-> <<MissingExamplesError>>, warnings |-> <<>>]
    ELSE LET badGood == BadGoodIssues(rule.examples)
         IN  [errors |-> badGood.errors \o CodeIssues(rule.examples).errors,
              warnings |-> badGood.warnings \o LanguageWarnings(rule.examples)]

\* ImpactIssues comparing the impact without regard to case.
ImpactIssuesIgnoringCase(rule) ==
    IF \E i \in DOMAIN IMPACT_LEVELS :
          toLowerCase(IMPACT_LEVELS[i]) = toLowerCase(rule.impact)
    THEN NoIssues
    ELSE [errors |-> <<InvalidImpactError(rule.impact)>>, warnings |-> <<>>]

\* validate.ts:90-93
ImpactIssues(rule) ==
    IF rule.impact \in SeqToSet(IMPACT_LEVELS)
    THEN NoIssues
    ELSE [errors |-> <<InvalidImpactError(rule.impact)>>, warnings |-> <<>>]

\* validate.ts:95-98
ImpactDescriptionIssues(rule) ==
    IF ~Truthy(rule.impactDescription)
    THEN [errors |-> <<>>, warnings |-> <<MissingImpactDescriptionWarning>>]
    ELSE NoIssues

\* The errors and warnings validateRuleFile pushes for a parsed rule, in the
\* order it pushes them.
RuleIssues(rule) ==
    LET title == TitleIssues(rule)
        explanation == ExplanationIssues(rule)
        examples == ExampleIssues(rule)
        impact == ImpactIssues(rule)
        impactDescription == ImpactDescriptionIssues(rule)
    IN  [errors |-> title.errors \o explanation.errors \o examples.errors
                        \o impact.errors \o impactDescription.errors,
         warnings |-> title.warnings \o explanation.warnings \o examples.warnings
                        \o impact.warnings \o impactDescription.warnings]

validateRuleFile(file) ==
    LET result == parseRuleFile(file)
    IN  IF ~result.success \/ result.rule = Absent
        THEN [valid |-> FALSE, errors |-> result.errors, warnings |-> result.warnings]
        ELSE LET issues == RuleIssues(result.rule)
                 errors == result.errors \o issues.errors
                 warnings == result.warnings \o issues.warnings
             IN  [valid |-> Len(errors) = 0, errors |-> errors, warnings |-> warnings]

(***************************************************************************)
(* build.ts: the section registry and the metadata.                        *)
(***************************************************************************)
\* build.ts:41-52
getDefaultSections ==
    << [number |-> 1, title |-> "Query Performance", prefix |-> "query",
        impact |-> "CRITICAL",
        description |-> "Slow queries, missing indexes, inefficient plans"],
       [number |-> 2, title |-> "Connection Management", prefix |-> "conn",
        impact |-> "CRITICAL",
        description |-> "Pooling, limits, serverless strategies"],
       [number |-> 3, title |-> "Schema Design", prefix |-> "schema",
        impact |-> "HIGH",
        description |-> "Table design, indexes, partitioning, data types"],
       [number |-> 4, title |-> "Concurrency & Locking", prefix |-> "lock",
        impact |-> "MEDIUM-HIGH",
        description |-> "Transactions, isolation, deadlocks"],
       [number |-> 5, title |-> "Security & RLS", prefix |-> "security",
        impact |-> "MEDIUM-HIGH",
        description |-> "Row-Level Security, privileges, auth patterns"],
       [number |-> 6, title |-> "Data Access Patterns", prefix |-> "data",
        impact |-> "MEDIUM",
        description |-> "N+1 queries, batch operations, pagination"],
       [number |-> 7, title |-> "Monitoring & Diagnostics", prefix |-> "monitor",
        impact |-> "LOW-MEDIUM",
        description |-> "pg_stat_statements, EXPLAIN, metrics"],
       [number |-> 8, title |-> "Advanced Features", prefix |-> "advanced",
        impact |-> "LOW",
        description |-> "Full-text search, JSONB, extensions"] >>

\* An entry of _sections.md is the text of one "## N. Title (prefix)" block:
\* its heading number, title and parenthesised prefix, its **Impact:** word
\* and its **Description:** line, each empty when the block lacks it.  The
\* pattern of build.ts:21-23 needs one or more characters for each of the
\* four captured texts, so a block matches when none of them is empty.
MatchesSectionPattern(entry) ==
    /\ Truthy(entry.title)
    /\ Truthy(entry.prefix)
    /\ Truthy(entry.impact)
    /\ Truthy(entry.description)

\* build.ts:25-33
SectionOfMatch(entry) ==
    [number |-> entry.number,
     title |-> trim(entry.title),
     prefix |-> trim(entry.prefix),
     impact |-> trim(entry.impact),
     description |-> trim(entry.description)]

RECURSIVE MatchedSections(_)
MatchedSections(entries) ==
    IF entries = <<>> THEN <<>>
    ELSE (IF MatchesSectionPattern(Head(entries))
          THEN <<SectionOfMatch(Head(entries))>>
          ELSE <<>>)
         \o MatchedSections(Tail(entries))

\* build.ts:11-36
parseSections(file) ==
    IF file = Absent THEN getDefaultSections
    ELSE IF Len(MatchedSections(file.content)) > 0 THEN MatchedSections(file.content)
    ELSE getDefaultSections

MonthNames ==
    <<"January", "February", "March", "April", "May", "June", "July",
      "August", "September", "October", "November", "December">>

\* new Date().toLocaleDateString("en-US", {month: "long", year: "numeric"})
\* when the clock stands t months after January 2026.
toLocaleDateString(t) ==
    MonthNames[(t % 12) + 1] \o " " \o ToString(2026 + (t \div 12))

\* build.ts:57-69
loadMetadata(file, t) ==
    IF file = Absent
    THEN [version |-> "0.1.0",
          organization |-> "Supabase",
          date |-> toLocaleDateString(t),
          abstract |-> "Postgres performance optimization guide for developers.",
          references |-> <<>>]
    ELSE file.content

AnchorChars ==
    {CharAt(LetterPairs[i], 1) : i \in DOMAIN LetterPairs}
        \cup {"0", "1", "2", "3", "4", "5", "6", "7", "8", "9", "-"}

\* .replace(/[^a-z0-9\s-]/g, ""), from position i on
RECURSIVE StripFrom(_, _)
StripFrom(s, i) ==
    IF i > Len(s) THEN ""
    ELSE (IF CharAt(s, i) \in Whitespace \/ CharAt(s, i) \in AnchorChars
          THEN CharAt(s, i)
          ELSE "")
         \o StripFrom(s, i + 1)

\* .replace(/\s+/g, "-"), from position i on
RECURSIVE HyphenateFrom(_, _)
HyphenateFrom(s, i) ==
    IF i > Len(s) THEN ""
    ELSE IF CharAt(s, i) \in Whitespace
    THEN "-" \o HyphenateFrom(s, SkipWhitespace(s, i))
    ELSE CharAt(s, i) \o HyphenateFrom(s, i + 1)

\* build.ts:74-79
toAnchor(text) == HyphenateFrom(StripFrom(toLowerCase(text), 1), 1)

(***************************************************************************)
(* String.prototype.localeCompare for texts of letters, digits, blanks and *)
(* hyphens: the texts are compared letter by letter without regard to      *)
(* case, and texts that differ only in case are ordered by the first       *)
(* letter whose case differs, lower case first.                            *)
(***************************************************************************)
CollationOrder == " -0123456789abcdefghijklmnopqrstuvwxyz"

PrimaryWeight(c) == IndexOfChar(CollationOrder, LowerChar(c))

\* The first difference of primary weight from position i on decides; a
\* string that ends first sorts first.
RECURSIVE ComparePrimaryFrom(_, _, _)
ComparePrimaryFrom(a, b, i) ==
    IF i > Len(a) /\ i > Len(b) THEN 0
    ELSE IF i > Len(a) THEN -1
    ELSE IF i > Len(b) THEN 1
    ELSE LET wa == PrimaryWeight(CharAt(a, i))
             wb == PrimaryWeight(CharAt(b, i))
         IN  IF wa < wb THEN -1
             ELSE IF wa > wb THEN 1
             ELSE ComparePrimaryFrom(a, b, i + 1)

ComparePrimary(a, b) == ComparePrimaryFrom(a, b, 1)

\* Between strings of equal primary weights the first difference of case
\* decides, lower case first.
RECURSIVE CompareCaseFrom(_, _, _)
CompareCaseFrom(a, b, i) ==
    IF i > Len(a) \/ i > Len(b) THEN 0
    ELSE IF CharAt(a, i) = CharAt(b, i) THEN CompareCaseFrom(a, b, i + 1)
    ELSE IF CharAt(a, i) = LowerChar(CharAt(a, i)) THEN -1
    ELSE 1

CompareCase(a, b) == CompareCaseFrom(a, b, 1)

localeCompare(a, b) ==
    LET primary == ComparePrimary(a, b)
    IN  IF primary # 0 THEN primary ELSE CompareCase(a, b)

(***************************************************************************)
(* build.ts: buildAgents.                                                  *)
(***************************************************************************)
\* .filter((f) => f.endsWith(".md") && !f.startsWith("_")), build.ts:92-94
IsRuleFile(file) == endsWith(file.name, ".md") /\ ~startsWith(file.name, "_")

RuleFilesOf(listing) == SelectSeq(listing, IsRuleFile)

\* The loop of build.ts:103-115 leaving at the first invalid file instead of
\* going on to the next one.
RECURSIVE CollectRulesUntilInvalid(_)
CollectRulesUntilInvalid(files) ==
    IF files = <<>> THEN <<>>
    ELSE LET validation_ == validateRuleFile(Head(files))
             result == parseRuleFile(Head(files))
         IN  IF ~validation_.valid THEN <<>>
             ELSE <<result.rule>> \o CollectRulesUntilInvalid(Tail(files))

\* build.ts:100-115: the rules array, in the order of the files.
RECURSIVE CollectRules(_)
CollectRules(files) ==
    IF files = <<>> THEN <<>>
    ELSE LET validation_ == validateRuleFile(Head(files))
             result == parseRuleFile(Head(files))
         IN  (IF ~validation_.valid THEN <<>>
              ELSE IF result.success /\ result.rule # Absent THEN <<result.rule>>
              ELSE <<>>)
             \o CollectRules(Tail(files))

Indices(seq) == [i \in 1..Len(seq) |-> i]

\* build.ts:117-124.  rulesBySection is a Map: its keys are in the order of
\* their first insertion, and the array under a key holds that section's
\* rules (here: their positions in the rules array, standing for the object
\* references the code pushes) in the order of the rules array.
MapKeys(rs) ==
    LET First(i) == \A j \in 1..(i - 1) : rs[j].section # rs[i].section
        Key(i) == rs[i].section
        firsts == SelectSeq(Indices(rs), First)
    IN  [k \in 1..Len(firsts) |-> Key(firsts[k])]

MapGet(rs, sectionNum) ==
    LET InSection(i) == rs[i].section = sectionNum
    IN  SelectSeq(Indices(rs), InSection)

\* Array.prototype.sort is stable: an element goes behind every element that
\* does not compare greater than it.
InsertByTitle(sorted, x, rs) ==
    LET pos == Cardinality({k \in DOMAIN sorted :
                    localeCompare(rs[sorted[k]].title, rs[x].title) <= 0})
    IN  SubSeq(sorted, 1, pos) \o <<x>> \o SubSeq(sorted, pos + 1, Len(sorted))

\* sectionRules in the order the rules were pushed: the sort left out.
UnsortedSectionRules(rs, sectionNum) == MapGet(rs, sectionNum)

RECURSIVE SortByTitle(_, _)
SortByTitle(idxs, rs) ==
    IF idxs = <<>> THEN <<>>
    ELSE InsertByTitle(SortByTitle(SubSeq(idxs, 1, Len(idxs) - 1), rs),
                       idxs[Len(idxs)], rs)

\* build.ts:128: a section's rules after the sort.
SortedSectionRules(rs, sectionNum) == SortByTitle(MapGet(rs, sectionNum), rs)

PositionIn(seq, x) == CHOOSE k \in DOMAIN seq : seq[k] = x

\* build.ts:129-131
RuleIdOf(rs, i) ==
    ToString(rs[i].section) \o "."
        \o ToString(PositionIn(SortedSectionRules(rs, rs[i].section), i))

WithId(rule, id) ==
    [id |-> id,
     title |-> rule.title,
     impact |-> rule.impact,
     impactDescription |-> rule.impactDescription,
     explanation |-> rule.explanation,
     section |-> rule.section,
     examples |-> rule.examples,
     supabaseNotes |-> rule.supabaseNotes,
     references |-> rule.references]

\* build.ts:117-132: the rules array once every rule has its id.
AssignIds(rs) == [i \in 1..Len(rs) |-> WithId(rs[i], RuleIdOf(rs, i))]

\* rulesBySection.get(section.number) || [], after the sort, rs being the
\* rules array: the rules themselves.
SectionRules(rs, sectionNum) ==
    LET sorted == SortedSectionRules(rs, sectionNum)
    IN  [k \in 1..Len(sorted) |-> rs[sorted[k]]]

RECURSIVE Concat(_)
Concat(seqs) == IF seqs = <<>> THEN <<>> ELSE Head(seqs) \o Concat(Tail(seqs))

\* build.ts:137-148
RenderHeader(metadata) ==
    << "# Postgres Best Practices\n",
       "**Version " \o metadata.version \o "**",
       metadata.organization,
       metadata.date \o "\n",
       "> This document is optimized for AI agents and LLMs. Rules are prioritized by performance impact.\n",
       "---\n",
       "## Abstract\n",
       metadata.abstract \o "\n",
       "---\n" >>

\* build.ts:157-159
RenderTocRule(rule) ==
    "   - " \o rule.id \o " [" \o rule.title \o "](#"
        \o toAnchor(rule.id \o "-" \o rule.title) \o ")"

\* build.ts:153-162
RenderTocSection(section, sectionRules) ==
    << ToString(section.number) \o ". [" \o section.title \o "](#"
          \o toAnchor(section.title) \o ") - **" \o section.impact \o "**" >>
    \o [k \in 1..Len(sectionRules) |-> RenderTocRule(sectionRules[k])]
    \o << "" >>

\* The fence of a code block.  A TLA+ string cannot hold the backquote, so
\* the three backquotes of the source are written as three apostrophes.
CodeFence == "'''"

\* build.ts:189-203
RenderExample(example) ==
    << (IF Truthy(example.description)
        THEN "**" \o example.label \o " (" \o example.description \o "):**\n"
        ELSE "**" \o example.label \o ":**\n"),
       CodeFence \o (IF Truthy(example.language) THEN example.language ELSE "sql"),
       example.code,
       CodeFence \o "\n" >>
    \o (IF Truthy(example.additionalText)
        THEN << example.additionalText \o "\n" >>
        ELSE <<>>)

\* build.ts:209-219
RenderRuleReferences(rule) ==
    IF Len(rule.references) = 0 THEN <<>>
    ELSE IF Len(rule.references) = 1
    THEN << "Reference: " \o rule.references[1] \o "\n" >>
    ELSE << "References:" >>
         \o [k \in 1..Len(rule.references) |-> "- " \o rule.references[k]]
         \o << "" >>

RuleHeading(rule) == "### " \o rule.id \o " " \o rule.title \o "\n"

\* build.ts:178-222
RenderRule(rule) ==
    << RuleHeading(rule),
       (IF Truthy(rule.impactDescription)
        THEN "**Impact: " \o rule.impact \o " (" \o rule.impactDescription \o ")**\n"
        ELSE "**Impact: " \o rule.impact \o "**\n"),
       rule.explanation \o "\n" >>
    \o Concat([k \in 1..Len(rule.examples) |-> RenderExample(rule.examples[k])])
    \o (IF Truthy(rule.supabaseNotes)
        THEN << "**Supabase Note:** " \o rule.supabaseNotes \o "\n" >>
        ELSE <<>>)
    \o RenderRuleReferences(rule)
    \o << "---\n" >>

SectionHeading(section) ==
    "## " \o ToString(section.number) \o ". " \o section.title \o "\n"

Placeholder == "*No rules defined yet. See rules/_template.md for creating new rules.*\n"

\* build.ts:167-223, one turn of the loop
RenderSection(section, sectionRules) ==
    << SectionHeading(section),
       "**Impact: " \o section.impact \o "**\n",
       section.description \o "\n" >>
    \o (IF Len(sectionRules) = 0 THEN << Placeholder >> ELSE <<>>)
    \o Concat([k \in 1..Len(sectionRules) |-> RenderRule(sectionRules[k])])

\* build.ts:225-232
RenderReferences(metadata) ==
    IF Len(metadata.references) > 0
    THEN << "## References\n" >>
         \o [k \in 1..Len(metadata.references) |-> "- " \o metadata.references[k]]
         \o << "" >>
    ELSE <<>>

\* The sections in the order in which rulesBySection got its keys, followed
\* by the sections that have no rule.
SectionsInInsertionOrder(sections, rs) ==
    LET HasRule(sec) == \E i \in DOMAIN rs : rs[i].section = sec.number
        HasNoRule(sec) == ~HasRule(sec)
        keys == MapKeys(rs)
        OfKey(k) == LET Is(sec) == sec.number = keys[k] IN SelectSeq(sections, Is)
    IN  Concat([k \in 1..Len(keys) |-> OfKey(k)]) \o SelectSeq(sections, HasNoRule)

\* The order in which the document's loops go through the sections.
RenderOrder(sections, rs) == sections

\* build.ts:134-235: the output array, rs being the rules array with the ids
\* assigned; the file written is the array's elements joined by "\n".
RenderDocument(metadata, sections, rs) ==
    LET order == RenderOrder(sections, rs)
    IN  RenderHeader(metadata)
        \o << "## Table of Contents\n" >>
        \o Concat([k \in 1..Len(order) |->
                RenderTocSection(order[k], SectionRules(rs, order[k].number))])
        \o << "---\n" >>
        \o Concat([k \in 1..Len(order) |->
                RenderSection(order[k], SectionRules(rs, order[k].number))])
        \o RenderReferences(metadata)

(***************************************************************************)
(* extract-tests.ts                                                        *)
(***************************************************************************)
\* extract-tests.ts:11-14
extract_isBadExample(label) ==
    LET lower == toLowerCase(label)
    IN  includes(lower, "incorrect") \/ includes(lower, "wrong") \/ includes(lower, "bad")

\* extract-tests.ts:19-29
extract_isGoodExample(label) ==
    LET lower == toLowerCase(label)
    IN  \/ includes(lower, "correct")
        \/ includes(lower, "good")
        \/ includes(lower, "usage")
        \/ includes(lower, "implementation")
        \/ includes(lower, "example")
        \/ includes(lower, "recommended")

\* The type with the good keywords checked first.
ExampleTypeGoodFirst(label) ==
    IF extract_isGoodExample(label) THEN "good"
    ELSE IF extract_isBadExample(label) THEN "bad"
    ELSE "null"

\* extract-tests.ts:69-75
ExampleType(label) ==
    IF extract_isBadExample(label) THEN "bad"
    ELSE IF extract_isGoodExample(label) THEN "good"
    ELSE "null"

\* extract-tests.ts:64-87, one turn of the loop over the examples
TestCasesOfExample(rule, ruleId, example) ==
    IF ~Truthy(example.code) \/ Len(trim(example.code)) = 0 THEN <<>>
    ELSE IF ExampleType(example.label) = "null" THEN <<>>
    ELSE << [ruleId |-> ruleId,
             ruleTitle |-> rule.title,
             type |-> ExampleType(example.label),
             code |-> example.code,
             language |-> IF Truthy(example.language) THEN example.language ELSE "sql",
             description |-> IF Truthy(example.description) THEN example.description
                             ELSE example.label \o " example for " \o rule.title] >>

TestCasesOfRule(rule, ruleId) ==
    Concat([k \in 1..Len(rule.examples) |->
                TestCasesOfExample(rule, ruleId, rule.examples[k])])

\* ruleCountBySection.get(section) || 0
CountOf(ruleCountBySection, section) ==
    IF section \in DOMAIN ruleCountBySection THEN ruleCountBySection[section] ELSE 0

\* extract-tests.ts:45-88: the loop over the files from the file at the head
\* of files on, ruleCountBySection being the counts so far.
RECURSIVE ExtractFrom(_, _)
ExtractFrom(files, ruleCountBySection) ==
    IF files = <<>> THEN <<>>
    ELSE IF ~validateRuleFile(Head(files)).valid
    THEN ExtractFrom(Tail(files), ruleCountBySection)
    ELSE IF ~parseRuleFile(Head(files)).success \/ parseRuleFile(Head(files)).rule = Absent
    THEN ExtractFrom(Tail(files), ruleCountBySection)
    ELSE LET rule == parseRuleFile(Head(files)).rule
             sectionCount == CountOf(ruleCountBySection, rule.section) + 1
             counts == [n \in DOMAIN ruleCountBySection \cup {rule.section} |->
                            IF n = rule.section THEN sectionCount
                            ELSE ruleCountBySection[n]]
             ruleId == ToString(rule.section) \o "." \o ToString(sectionCount)
         IN  TestCasesOfRule(rule, ruleId) \o ExtractFrom(Tail(files), counts)

\* extract-tests.ts:34-91
extractTestCases(listing) == ExtractFrom(RuleFilesOf(listing), <<>>)

(***************************************************************************)
(* The rule files handed to a single validateRuleFile call.                *)
(***************************************************************************)
LongExplanation ==
    "Sequential scans on large tables are slow; an index on the filter column avoids them."

ExampleLabels == {"Incorrect", "Correct", "Wrong", "Note"}

\* code and language of an example: no code, blank code, code without and
\* with a language tag.
ExampleBodies ==
    {[code |-> "", language |-> ""],
     [code |-> "  ", language |-> ""],
     [code |-> "SELECT 1;", language |-> ""],
     [code |-> "SELECT 1;", language |-> "sql"]}

Examples ==
    {[label |-> l, description |-> "", code |-> b.code, language |-> b.language,
      additionalText |-> ""] :
        l \in ExampleLabels, b \in ExampleBodies}

SeqsUpTo(S, n) == UNION {[1..k -> S] : k \in 0..n}

CandidateFiles ==
    [name : {"query-missing-index.md"},
     title : {"", " ", "Add Missing Index"},
     impact : SeqToSet(IMPACT_LEVELS) \cup {"SEVERE", "critical"},
     impactDescription : {"", "10x faster"},
     explanation : {"", "Use an index.", LongExplanation},
     examples : SeqsUpTo(Examples, MaxExamples),
     supabaseNotes : {""},
     references : {<<>>}]

(***************************************************************************)
(* One call of validateRuleFile on one file.                               *)
(***************************************************************************)
PipelineIdle ==
    /\ dir = <<>>
    /\ sectionsFile = Absent
    /\ metadataFile = Absent
    /\ clock = 0
    /\ agentsMd = Absent
    /\ rules = Absent
    /\ testCases = Absent

InitValidate ==
    /\ PipelineIdle
    /\ candidate \in CandidateFiles
    /\ validation = Absent
    /\ report = Absent

ValidateRuleFile ==
    /\ candidate # Absent
    /\ validation = Absent
    /\ validation' = validateRuleFile(candidate)
    /\ UNCHANGED <<dir, sectionsFile, metadataFile, clock, agentsMd,
                   rules, testCases, candidate, report>>

NextValidate == ValidateRuleFile

SpecValidate == InitValidate /\ [][NextValidate]_vars

(***************************************************************************)
(* The rule directories, section files and metadata files explored.        *)
(***************************************************************************)
IncorrectExample ==
    [label |-> "Incorrect", description |-> "N+1 query",
     code |-> "SELECT * FROM a;", language |-> "sql", additionalText |-> ""]

CorrectExample ==
    [label |-> "Correct", description |-> "batched",
     code |-> "SELECT * FROM a WHERE id = ANY($1);", language |-> "sql",
     additionalText |-> "One round trip instead of many."]

NoteExample ==
    [label |-> "Note", description |-> "",
     code |-> "EXPLAIN SELECT 1;", language |-> "", additionalText |-> ""]

CorrectUsageWithoutCode ==
    [label |-> "Correct usage", description |-> "",
     code |-> "", language |-> "", additionalText |-> ""]

ZebraIndexFile ==
    [name |-> "schema-a.md", title |-> "Zebra Index", impact |-> "HIGH",
     impactDescription |-> "10x faster scans", explanation |-> LongExplanation,
     examples |-> <<IncorrectExample, CorrectExample>>,
     supabaseNotes |-> "",
     references |-> <<"https://www.postgresql.org/docs/current/indexes.html">>]

AvoidBloatFile ==
    [name |-> "schema-b.md", title |-> "Avoid Bloat", impact |-> "MEDIUM",
     impactDescription |-> "", explanation |-> LongExplanation,
     examples |-> <<CorrectExample>>,
     supabaseNotes |-> "The dashboard shows table bloat.",
     references |-> <<"https://supabase.com/docs",
                      "https://www.postgresql.org/docs/current/">>]

\* A second rule of the same section with the same title.
AvoidBloatAgainFile ==
    [name |-> "schema-c.md", title |-> "Avoid Bloat", impact |-> "LOW",
     impactDescription |-> "less disk", explanation |-> "Vacuum often.",
     examples |-> <<IncorrectExample, CorrectExample>>,
     supabaseNotes |-> "", references |-> <<>>]

AddMissingIndexFile ==
    [name |-> "query-a.md", title |-> "Add Missing Index", impact |-> "CRITICAL",
     impactDescription |-> "100x faster", explanation |-> LongExplanation,
     examples |-> <<IncorrectExample, NoteExample, CorrectUsageWithoutCode>>,
     supabaseNotes |-> "", references |-> <<>>]

SevereImpactFile ==
    [name |-> "query-b.md", title |-> "Severe Rule", impact |-> "SEVERE",
     impactDescription |-> "", explanation |-> LongExplanation,
     examples |-> <<IncorrectExample, CorrectExample>>,
     supabaseNotes |-> "", references |-> <<>>]

UnknownPrefixFile ==
    [name |-> "bogus-a.md", title |-> "Bogus Prefix", impact |-> "HIGH",
     impactDescription |-> "", explanation |-> LongExplanation,
     examples |-> <<IncorrectExample, CorrectExample>>,
     supabaseNotes |-> "", references |-> <<>>]

\* _sections.md lies in the rules directory, so a listing of the directory
\* holds it; read as a rule it would be a text with two example headings.
SectionsFileEntry ==
    [name |-> "_sections.md", title |-> "Section Definitions", impact |-> "HIGH",
     impactDescription |-> "", explanation |-> LongExplanation,
     examples |-> <<IncorrectExample, CorrectExample>>,
     supabaseNotes |-> "", references |-> <<>>]

DirectoryFiles ==
    {ZebraIndexFile, AvoidBloatFile, AvoidBloatAgainFile, AddMissingIndexFile,
     SevereImpactFile, UnknownPrefixFile}

\* The rule files readdirSync can return: up to MaxFiles files in any order,
\* no two of the same name.
Listings ==
    {l \in SeqsUpTo(DirectoryFiles, MaxFiles) :
        \A i, j \in DOMAIN l : i # j => l[i].name # l[j].name}

QuerySectionEntry ==
    [number |-> 1, title |-> "Query Performance ", prefix |-> "query",
     impact |-> "CRITICAL",
     description |-> "Slow queries, missing indexes, inefficient query plans."]

\* A block whose heading has no "(prefix)".
ConnSectionEntryWithoutPrefix ==
    [number |-> 2, title |-> "Connection Management", prefix |-> "",
     impact |-> "CRITICAL",
     description |-> "Connection pooling, limits, and serverless strategies."]

SchemaSectionEntry ==
    [number |-> 3, title |-> "Schema Design ", prefix |-> "schema",
     impact |-> "HIGH",
     description |-> "Table design, index strategies, partitioning."]

SectionFiles ==
    {Absent,
     FileOf(<<ConnSectionEntryWithoutPrefix>>),
     FileOf(<<QuerySectionEntry>>),
     FileOf(<<SchemaSectionEntry, QuerySectionEntry>>),
     FileOf(<<QuerySectionEntry, ConnSectionEntryWithoutPrefix, SchemaSectionEntry>>)}

MetadataFiles ==
    {Absent,
     FileOf([version |-> "0.1.0",
             organization |-> "Supabase",
             date |-> "January 2026",
             abstract |-> "Comprehensive PostgreSQL performance optimization guide.",
             references |-> <<"https://www.postgresql.org/docs/current/",
                              "https://supabase.com/docs">>])}

(***************************************************************************)
(* The commands of the package, run in any order and any number of times   *)
(* over one directory, while the clock moves on.                           *)
(***************************************************************************)
Init ==
    /\ sectionsFile \in SectionFiles
    /\ \E listing \in Listings :
          dir = listing \o (IF sectionsFile = Absent THEN <<>> ELSE <<SectionsFileEntry>>)
    /\ metadataFile \in MetadataFiles
    /\ clock = 0
    /\ agentsMd = Absent
    /\ rules = Absent
    /\ testCases = Absent
    /\ candidate = Absent
    /\ validation = Absent
    /\ report = Absent

\* build.ts:84-238
BuildAgents ==
    LET metadata == loadMetadata(metadataFile, clock)
        sections == parseSections(sectionsFile)
        rs == CollectRules(RuleFilesOf(dir))
        withIds == AssignIds(rs)
    IN  /\ rules' = FileOf(withIds)
        /\ agentsMd' = FileOf(RenderDocument(metadata, sections, withIds))
        /\ UNCHANGED <<dir, sectionsFile, metadataFile, clock, testCases,
                       candidate, validation, report>>

\* extract-tests.ts:96-118
ExtractTests ==
    /\ testCases' = FileOf(extractTestCases(dir))
    /\ UNCHANGED <<dir, sectionsFile, metadataFile, clock, agentsMd,
                   rules, candidate, validation, report>>

\* A month goes by.
Tick ==
    /\ clock < MaxClock
    /\ clock' = clock + 1
    /\ UNCHANGED <<dir, sectionsFile, metadataFile, agentsMd,
                   rules, testCases, candidate, validation, report>>

Next == BuildAgents \/ ExtractTests \/ Tick

Spec == Init /\ [][Next]_vars

(***************************************************************************)
(* validate.ts: validateAllRules and the validate command.                 *)
(***************************************************************************)
\* results.set(key, value): a Map keeps a key at the place of its first
\* insertion and holds one value per key.
MapSet(map, key, value) ==
    IF \E i \in DOMAIN map : map[i].key = key
    THEN [i \in DOMAIN map |->
            IF map[i].key = key THEN [key |-> key, value |-> value] ELSE map[i]]
    ELSE Append(map, [key |-> key, value |-> value])

\* validate.ts:125-134: the loop over the files, from the counts so far.
RECURSIVE ValidateFiles(_, _)
ValidateFiles(files, sofar) ==
    IF files = <<>> THEN sofar
    ELSE LET result == validateRuleFile(Head(files))
         IN  ValidateFiles(Tail(files),
                [results |-> MapSet(sofar.results, Head(files).name, result),
                 validFiles |-> sofar.validFiles + (IF result.valid THEN 1 ELSE 0),
                 invalidFiles |-> sofar.invalidFiles + (IF result.valid THEN 0 ELSE 1)])

\* validate.ts:110-142
validateAllRules(listing) ==
    LET files == RuleFilesOf(listing)
        counted == ValidateFiles(files, [results |-> <<>>, validFiles |-> 0,
                                         invalidFiles |-> 0])
    IN  [totalFiles |-> Len(files),
         validFiles |-> counted.validFiles,
         invalidFiles |-> counted.invalidFiles,
         results |-> counted.results]

\* validate.ts:162: the files the command prints a block for.
IsReported(result) == ~result.valid \/ Len(result.warnings) > 0

\* hasErrors set for every file the command prints a block for, instead of
\* inside the loop over that file's errors.
hasErrorsPerReportedFile(results) ==
    \E i \in DOMAIN results : IsReported(results[i].value)

\* validate.ts:159-174: hasErrors after the loop over the results.
hasErrors(results) ==
    \E i \in DOMAIN results :
        IsReported(results[i].value) /\ Len(results[i].value.errors) > 0

ErrorLines(errors) == [i \in DOMAIN errors |-> "  ERROR: " \o errors[i]]

WarningLines(warnings) == [i \in DOMAIN warnings |-> "  WARNING: " \o warnings[i]]

\* validate.ts:161-174: what the command prints for the results.
RECURSIVE ResultLines(_)
ResultLines(results) ==
    IF results = <<>> THEN <<>>
    ELSE LET filename == Head(results).key
             result == Head(results).value
         IN  (IF IsReported(result)
              THEN <<"\n" \o filename \o ":">> \o ErrorLines(result.errors)
                     \o WarningLines(result.warnings)
              ELSE <<>>)
             \o ResultLines(Tail(results))

NoFilesLines ==
    <<"No rule files found (this is expected for initial setup).",
      "Create rule files in: skills/postgres-best-practices/rules/",
      "Use the _template.md as a starting point.\n">>

TotalLine(all) ==
    "Total: " \o ToString(all.totalFiles) \o " files | Valid: "
        \o ToString(all.validFiles) \o " | Invalid: " \o ToString(all.invalidFiles)

Banner == <<"Validating Postgres best practices rules...\n">>

\* validate.ts:151-185: the lines printed and the exit code, given what
\* validateAllRules returned.
ReportOf(all) ==
    IF all.totalFiles = 0
        THEN [totalFiles |-> all.totalFiles, validFiles |-> all.validFiles,
              invalidFiles |-> all.invalidFiles, results |-> all.results,
              stdout |-> Banner \o NoFilesLines,
              exitCode |-> 0]
        ELSE [totalFiles |-> all.totalFiles, validFiles |-> all.validFiles,
              invalidFiles |-> all.invalidFiles, results |-> all.results,
              stdout |-> Banner \o ResultLines(all.results)
                           \o <<"\n==================================================",
                                TotalLine(all)>>
                           \o (IF hasErrors(all.results)
                               THEN <<"\nValidation failed. Please fix the errors above.">>
                               ELSE <<"\nValidation passed!">>),
              exitCode |-> IF hasErrors(all.results) THEN 1 ELSE 0]

\* validate.ts:147-186: the counts, the lines printed and the exit code of
\* one run of the command over listing.
main(listing) == ReportOf(validateAllRules(listing))

(***************************************************************************)
(* The validate command, run over one directory.                           *)
(***************************************************************************)
InitValidateAll ==
    /\ sectionsFile \in {Absent, FileOf(<<SchemaSectionEntry, QuerySectionEntry>>)}
    /\ \E listing \in Listings :
          dir = listing \o (IF sectionsFile = Absent THEN <<>> ELSE <<SectionsFileEntry>>)
    /\ metadataFile = Absent
    /\ clock = 0
    /\ agentsMd = Absent
    /\ rules = Absent
    /\ testCases = Absent
    /\ candidate = Absent
    /\ validation = Absent
    /\ report = Absent

\* validate.ts:147-186
ValidateAll ==
    /\ report = Absent
    /\ report' = FileOf(main(dir))
    /\ UNCHANGED <<dir, sectionsFile, metadataFile, clock, agentsMd,
                   rules, testCases, candidate, validation>>

NextValidateAll == ValidateAll

SpecValidateAll == InitValidateAll /\ [][NextValidateAll]_vars

(***************************************************************************)
(* Claims about validateRuleFile (checked under SpecValidate).             *)
(***************************************************************************)
Validated == validation # Absent
Parsed == parseRuleFile(candidate).success

\* The classification of a label with the bad keywords checked first.
LabelClass(label) ==
    IF isBadExample(label) THEN "bad"
    ELSE IF isGoodExample(label) THEN "good"
    ELSE "none"

NoExampleOfClass(examples, class) ==
    \A i \in DOMAIN examples : LabelClass(examples[i].label) # class

InSeq(x, s) == \E i \in DOMAIN s : s[i] = x

\* C3: for a rule with at least one example, the bad/good issue reported is
\* decided by the bad-first classification of the labels: no bad and no good
\* example gives the "missing bad and good" error; else no bad example gives
\* only the warning; else no good example gives "Missing good/correct
\* example"; so a rule whose examples are all classified bad is never valid.
C3_BadFirstClassificationDecides ==
    (Validated /\ Parsed /\ Len(candidate.examples) > 0) =>
        LET ex == candidate.examples
            noBad == NoExampleOfClass(ex, "bad")
            noGood == NoExampleOfClass(ex, "good")
        IN  /\ (noBad /\ noGood) => InSeq(MissingBadAndGoodError, validation.errors)
            /\ (noBad /\ ~noGood) =>
                  /\ InSeq(MissingBadWarning, validation.warnings)
                  /\ ~InSeq(MissingBadAndGoodError, validation.errors)
                  /\ ~InSeq(MissingGoodError, validation.errors)
            /\ (~noBad /\ noGood) =>
                  /\ InSeq(MissingGoodError, validation.errors)
                  /\ ~validation.valid

IsExampleError(e) ==
    e \in {MissingExamplesError, MissingBadAndGoodError, MissingGoodError, NoCodeError}

IsExampleWarning(w) ==
    w = MissingBadWarning \/ endsWith(w, "missing language specification")

\* C5: a successfully parsed rule with zero examples gets exactly one
\* example-related error, "Missing examples", and no example-related warning.
C5_ZeroExamplesOnlyMissingExamples ==
    (Validated /\ Parsed /\ Len(candidate.examples) = 0) =>
        /\ SelectSeq(validation.errors, IsExampleError) = <<MissingExamplesError>>
        /\ SelectSeq(validation.warnings, IsExampleWarning) = <<>>

C5_Witness ==
    /\ Validated
    /\ Parsed
    /\ Len(candidate.examples) = 0
    /\ InSeq(MissingExamplesError, validation.errors)
    /\ Len(validation.errors) > 1

IsImpactError(e) == startsWith(e, "Invalid impact level")

\* The file has no defect other than, possibly, its impact.
NoOtherDefect(file) == validateRuleFile([file EXCEPT !.impact = "HIGH"]).valid

\* C6: an impact outside the six levels on an otherwise sound rule gives
\* valid = false with exactly one error, naming the value and listing the six
\* levels; an impact among the six levels gives no impact error; a missing
\* impactDescription gives only a warning and leaves valid as it would be
\* with a description.
C6_ImpactLevelChecked ==
    (Validated /\ Parsed) =>
        /\ (candidate.impact \notin SeqToSet(IMPACT_LEVELS) /\ NoOtherDefect(candidate)) =>
              /\ ~validation.valid
              /\ Len(validation.errors) = 1
              /\ IsImpactError(validation.errors[1])
              /\ includes(validation.errors[1], candidate.impact)
              /\ \A i \in DOMAIN IMPACT_LEVELS :
                    includes(validation.errors[1], IMPACT_LEVELS[i])
        /\ (candidate.impact \in SeqToSet(IMPACT_LEVELS)) =>
              \A i \in DOMAIN validation.errors : ~IsImpactError(validation.errors[i])
        /\ (~Truthy(candidate.impactDescription)) =>
              /\ InSeq(MissingImpactDescriptionWarning, validation.warnings)
              /\ validation.errors =
                    validateRuleFile([candidate EXCEPT !.impactDescription = "10x faster"]).errors
              /\ validation.valid =
                    validateRuleFile([candidate EXCEPT !.impactDescription = "10x faster"]).valid

C6_Witness ==
    /\ Validated
    /\ Parsed
    /\ candidate.impact = "SEVERE"
    /\ ~Truthy(candidate.impactDescription)
    /\ NoOtherDefect(candidate)
    /\ validation.errors = <<InvalidImpactError("SEVERE")>>

(***************************************************************************)
(* Claims about the build and the extraction (checked under Spec).         *)
(***************************************************************************)
Built == agentsMd # Absent /\ rules # Absent
Extracted == testCases # Absent

HasNoErrors(file) == Len(validateRuleFile(file).errors) = 0

\* The rule files of the listing whose validation result has zero errors.
FilesWithoutErrors(listing) == SelectSeq(RuleFilesOf(listing), HasNoErrors)

\* The ids buildAgents gives the error-free files of listing, in their order.
BuildIds(listing) ==
    LET withIds == AssignIds(CollectRules(RuleFilesOf(listing)))
    IN  [k \in 1..Len(withIds) |-> withIds[k].id]

\* The listings that hold the files of listing in some order.
Reorderings(listing) ==
    {[i \in DOMAIN listing |-> listing[p[i]]] : p \in Permutations(DOMAIN listing)}

IdText(sectionNum, p) == ToString(sectionNum) \o "." \o ToString(p)

\* The position the id of rs[i] names within its section, 0 if the id is not
\* of the section's form.
IdIndex(rs, i) ==
    IF \E p \in 1..Len(rs) : rs[i].id = IdText(rs[i].section, p)
    THEN CHOOSE p \in 1..Len(rs) : rs[i].id = IdText(rs[i].section, p)
    ELSE 0

SectionSize(rs, sectionNum) == Cardinality({i \in DOMAIN rs : rs[i].section = sectionNum})

\* The ids of every section with n rules are <section>.1 .. <section>.n, no
\* two rules share an id, and within a section the ids follow the titles.
IdsSequentialInTitleOrder(rs) ==
    /\ \A i \in DOMAIN rs :
          IdIndex(rs, i) \in 1..SectionSize(rs, rs[i].section)
    /\ \A i, j \in DOMAIN rs : i # j => rs[i].id # rs[j].id
    /\ \A i, j \in DOMAIN rs :
          (rs[i].section = rs[j].section
             /\ localeCompare(rs[i].title, rs[j].title) < 0)
          => IdIndex(rs, i) < IdIndex(rs, j)

\* The file at position k of files shares its title, as localeCompare sees
\* it, with another file of its section.
TitleTied(files, k) ==
    \E m \in DOMAIN files :
        /\ m # k
        /\ FilePrefix(files[m].name) \in DOMAIN SECTION_MAP
        /\ FilePrefix(files[k].name) \in DOMAIN SECTION_MAP
        /\ SECTION_MAP[FilePrefix(files[m].name)] = SECTION_MAP[FilePrefix(files[k].name)]
        /\ localeCompare(files[m].title, files[k].title) = 0

\* The names of the error-free files of listing, each with the id buildAgents
\* gives it.
NamedIds(listing) ==
    LET files == FilesWithoutErrors(listing)
        ids == BuildIds(listing)
    IN  {<<files[m].name, ids[m]>> : m \in DOMAIN files}

\* C1: every TestCase carries, as ruleId, the id buildAgents gives the rule
\* of that title in the document, whatever the order of the listing.
C1_ExtractorIdsMatchDocumentIds ==
    (Built /\ Extracted) =>
        \A n \in DOMAIN testCases.content :
            \E i \in DOMAIN rules.content :
                /\ rules.content[i].title = testCases.content[n].ruleTitle
                /\ rules.content[i].id = testCases.content[n].ruleId

\* C2 as stated: the ids of a section are <section>.1 .. <section>.n in title
\* order, no two rules share an id, and every rule gets the same id under
\* every order of the listing.
C2_IdsIndependentOfFileOrder ==
    Built =>
        /\ IdsSequentialInTitleOrder(rules.content)
        /\ \A other \in Reorderings(RuleFilesOf(dir)) :
              LET there == NamedIds(other)
                  files == FilesWithoutErrors(dir)
              IN  \A k \in DOMAIN rules.content :
                      <<files[k].name, rules.content[k].id>> \in there

\* C2 as amended: the ids of a section are <section>.1 .. <section>.n in title
\* order, no two rules share an id, rules of a section whose titles compare
\* equal get their ids in file order, and every rule whose title compares
\* equal to no other title of its section gets the same id under every order
\* of the listing.
C2_IdsSequentialByTitle ==
    Built =>
        LET rs == rules.content
            files == FilesWithoutErrors(dir)
        IN  /\ IdsSequentialInTitleOrder(rs)
            /\ \A i, j \in DOMAIN rs :
                  (i < j /\ rs[i].section = rs[j].section
                     /\ localeCompare(rs[i].title, rs[j].title) = 0)
                  => IdIndex(rs, i) < IdIndex(rs, j)
            /\ \A other \in Reorderings(RuleFilesOf(dir)) :
                  LET there == NamedIds(other)
                  IN  \A k \in DOMAIN rs :
                          ~TitleTied(files, k) => <<files[k].name, rs[k].id>> \in there

C2_Witness ==
    /\ Built
    /\ dir = <<ZebraIndexFile, AvoidBloatFile>>
    /\ rules.content[1].title = "Zebra Index"
    /\ rules.content[1].id = "3.2"
    /\ rules.content[2].title = "Avoid Bloat"
    /\ rules.content[2].id = "3.1"

IsRuleHeadingFor(line, title) ==
    startsWith(line, "### ") /\ endsWith(line, " " \o title \o "\n")

HasClassifiedCode(file) ==
    \E k \in DOMAIN file.examples :
        /\ Len(trim(file.examples[k].code)) > 0
        /\ LabelClass(file.examples[k].label) # "none"

ExpectedOfFile(files, k) ==
    LET Qualifies(e) == Len(trim(e.code)) > 0 /\ LabelClass(e.label) # "none"
        q == SelectSeq(files[k].examples, Qualifies)
    IN  [j \in 1..Len(q) |->
            [rule |-> k,
             ruleTitle |-> files[k].title,
             type |-> LabelClass(q[j].label),
             code |-> q[j].code]]

\* C7: the TestCases are, for the valid rules in the order of the listing and
\* the examples of each in source order, one per example whose code is not
\* blank and whose label is classified, typed bad when the label holds a bad
\* keyword and good otherwise; the TestCases of one rule share one ruleId
\* that no other rule's TestCases carry.
C7_TestCasesFromClassifiedExamples ==
    Extracted =>
        LET files == FilesWithoutErrors(dir)
            expected == Concat([k \in 1..Len(files) |-> ExpectedOfFile(files, k)])
            tcs == testCases.content
        IN  /\ Len(tcs) = Len(expected)
            /\ \A n \in DOMAIN tcs :
                  /\ tcs[n].ruleTitle = expected[n].ruleTitle
                  /\ tcs[n].type = expected[n].type
                  /\ tcs[n].code = expected[n].code
            /\ \A n, m \in DOMAIN tcs :
                  (tcs[n].ruleId = tcs[m].ruleId) <=> (expected[n].rule = expected[m].rule)

C7_Witness ==
    /\ Extracted
    /\ dir = <<AddMissingIndexFile, ZebraIndexFile>>
    /\ Len(testCases.content) = 3
    /\ testCases.content[1].type = "bad"
    /\ testCases.content[2].type = "bad"
    /\ testCases.content[2].code = "SELECT * FROM a;"
    /\ testCases.content[3].type = "good"
    /\ testCases.content[3].code = "SELECT * FROM a WHERE id = ANY($1);"
    /\ testCases.content[2].ruleId = testCases.content[3].ruleId
    /\ testCases.content[1].ruleId # testCases.content[2].ruleId

\* C8: the directory, the section file and the metadata file never change, so
\* every run of buildAgents after the first assigns the ids and writes the
\* text of the run before it, whenever it is run.
C8_RebuildWritesSameDocument ==
    [][Built => (agentsMd' = agentsMd /\ rules' = rules)]_vars

IsSectionHeadingLine(line) ==
    /\ startsWith(line, "## ")
    /\ line \notin {"## Abstract\n", "## Table of Contents\n", "## References\n"}

\* The positions of the section headings in the lines of a document.
SectionHeadingPositions(lines) ==
    LET IsHeadingAt(n) == IsSectionHeadingLine(lines[n])
    IN  SelectSeq(Indices(lines), IsHeadingAt)

\* The sections the claim C9 calls for: the defaults when the file is absent
\* or none of its blocks matches, every block of the file otherwise.
AllOrNothingSections(file) ==
    IF file = Absent THEN getDefaultSections
    ELSE IF \A k \in DOMAIN file.content : ~MatchesSectionPattern(file.content[k])
    THEN getDefaultSections
    ELSE [k \in 1..Len(file.content) |-> SectionOfMatch(file.content[k])]

\* C9: the document is built over the eight default sections when the section
\* file is absent or none of its blocks matches, and over every block of the
\* file, in the order of the file, otherwise: never over a part of the file.
C9_SectionsAllOrNothing ==
    Built =>
        LET heads == SectionHeadingPositions(agentsMd.content)
            wanted == AllOrNothingSections(sectionsFile)
        IN  /\ Len(heads) > 0
            /\ Len(heads) = Len(wanted)
            /\ \A k \in DOMAIN heads :
                  agentsMd.content[heads[k]] = SectionHeading(wanted[k])

\* C10: the document has one subsection per section of the registry, in the
\* registry's order; a subsection holds the placeholder exactly when no valid
\* rule belongs to its section; with no rule file and no section file all
\* eight default sections hold the placeholder.
C10_SubsectionPerSectionInRegistryOrder ==
    Built =>
        LET lines == agentsMd.content
            heads == SectionHeadingPositions(lines)
            sections == parseSections(sectionsFile)
            files == FilesWithoutErrors(dir)
            BlockEnd(k) == IF k < Len(heads) THEN heads[k + 1] - 1 ELSE Len(lines)
            HasPlaceholder(k) ==
                \E n \in (heads[k] + 1)..BlockEnd(k) : lines[n] = Placeholder
            HasRule(k) ==
                \E i \in DOMAIN files :
                    SECTION_MAP[FilePrefix(files[i].name)] = sections[k].number
        IN  /\ Len(heads) = Len(sections)
            /\ \A k \in DOMAIN heads :
                  /\ lines[heads[k]] = SectionHeading(sections[k])
                  /\ HasPlaceholder(k) <=> ~HasRule(k)
            /\ (RuleFilesOf(dir) = <<>> /\ sectionsFile = Absent) =>
                  /\ Len(heads) = Len(getDefaultSections)
                  /\ \A k \in DOMAIN heads :
                        /\ lines[heads[k]] = SectionHeading(getDefaultSections[k])
                        /\ HasPlaceholder(k)

C10_Witness ==
    /\ Built
    /\ dir = <<ZebraIndexFile, AddMissingIndexFile>>
    /\ sectionsFile = Absent
    /\ Cardinality({n \in DOMAIN agentsMd.content : agentsMd.content[n] = Placeholder})
          = Len(getDefaultSections) - 2
    /\ agentsMd.content[SectionHeadingPositions(agentsMd.content)[1]]
          = "## 1. Query Performance\n"

\* The number of lines of a document that are the line given.
CountOfLine(lines, line) == Cardinality({n \in DOMAIN lines : lines[n] = line})

\* The heading of rule stands in lines behind the heading of a section of its
\* number, with no other section heading in between.
UnderOwnSection(lines, sections, rule) ==
    \E n \in DOMAIN lines :
        /\ lines[n] = RuleHeading(rule)
        /\ \E h \in 1..(n - 1) :
              /\ \E k \in DOMAIN sections :
                    /\ sections[k].number = rule.section
                    /\ lines[h] = SectionHeading(sections[k])
              /\ \A m \in (h + 1)..(n - 1) : ~IsSectionHeadingLine(lines[m])

\* C12: every rule of the rules array, whose length the build reports as
\* "Total rules", has its section number in the section list the build uses,
\* and stands in the document exactly once: one line of the table of contents
\* and one rule heading, under the heading of its own section.
C12_EveryCountedRuleRenderedOnce ==
    Built =>
        LET lines == agentsMd.content
            sections == parseSections(sectionsFile)
        IN  \A k \in DOMAIN rules.content :
                /\ \E n \in DOMAIN sections :
                      sections[n].number = rules.content[k].section
                /\ CountOfLine(lines, RenderTocRule(rules.content[k])) = 1
                /\ CountOfLine(lines, RuleHeading(rules.content[k])) = 1
                /\ UnderOwnSection(lines, sections, rules.content[k])

(***************************************************************************)
(* Claims about the validate command (checked under SpecValidateAll).      *)
(***************************************************************************)
Reported == report # Absent

\* The number of results the command holds under the name of file.
ResultsFor(file) ==
    Cardinality({i \in DOMAIN report.content.results :
                    report.content.results[i].key = file.name})

\* C11: the validate command exits with a non-zero code exactly when some
\* discovered rule file has at least one error; every discovered file has
\* exactly one result, which is its validation result, and is counted once
\* as valid or invalid (totalFiles = validFiles + invalidFiles); files with
\* warnings only leave the exit code 0, and so do zero discovered files.
C11_ExitsNonZeroIffSomeFileHasErrors ==
    Reported =>
        LET files == RuleFilesOf(dir)
            run == report.content
        IN  /\ (run.exitCode # 0) <=> (\E k \in DOMAIN files : ~HasNoErrors(files[k]))
            /\ run.totalFiles = Len(files)
            /\ run.totalFiles = run.validFiles + run.invalidFiles
            /\ Len(run.results) = run.totalFiles
            /\ \A k \in DOMAIN files :
                  /\ ResultsFor(files[k]) = 1
                  /\ \A i \in DOMAIN run.results :
                        run.results[i].key = files[k].name
                        => run.results[i].value = validateRuleFile(files[k])
            /\ run.validFiles = Cardinality({k \in DOMAIN files : HasNoErrors(files[k])})
            /\ (Len(files) = 0 => run.exitCode = 0)

\* A run over a directory whose rule files include one with warnings and no
\* errors, and none with errors: the command exits with code 0.
C11_Witness ==
    /\ Reported
    /\ report.content.totalFiles = 2
    /\ \E i \in DOMAIN report.content.results :
          /\ Len(report.content.results[i].value.warnings) > 0
          /\ Len(report.content.results[i].value.errors) = 0
    /\ report.content.invalidFiles = 0
    /\ report.content.exitCode = 0

====
